---- MODULE Spec2Model ----
(***************************************************************************)
(* A model of the web-team-challenge client: the Session Store (the        *)
(* localStorage key 'userInfo'), the Session Context (AuthProvider), the   *)
(* Gate View (AuthBlock), the home view and the two List Views             *)
(* (InformationPage over characters, InformationPage over launches).      *)
(* One browser tab is modelled; the other tabs and the developer tools are *)
(* the environment that can change the shared storage out-of-band.         *)
(***************************************************************************)
EXTENDS Integers, Sequences, FiniteSets, Bags, TLC

\* ------------------------------------------------------------------ bounds
\* longest username typed into the form or passed to the context
MaxNameLen == 2
\* longest job title typed into the form or passed to the context
MaxTitleLen == 1

\* ----------------------------------------------------------------- strings
\* A string is a sequence of one-character strings.
QUOTE == "\""
BSLASH == "\\"
SPACE == " "
NameChars == {"a", SPACE}
TitleChars == {QUOTE, SPACE}

StringsOver(chars, n) == UNION {[1..k -> chars] : k \in 0..n}
Names == StringsOver(NameChars, MaxNameLen)
Titles == StringsOver(TitleChars, MaxTitleLen)

RECURSIVE TrimStart(_)
TrimStart(s) == IF s # <<>> /\ Head(s) = SPACE THEN TrimStart(Tail(s)) ELSE s

RECURSIVE TrimEnd(_)
TrimEnd(s) ==
    IF s # <<>> /\ s[Len(s)] = SPACE THEN TrimEnd(SubSeq(s, 1, Len(s) - 1)) ELSE s

\* String.prototype.trim
Trim(s) == TrimEnd(TrimStart(s))

\* --------------------------------------------------------------- JS values
\* What the state slot userInfo can hold: null, a UserInfo object, or what
\* JSON.parse makes of a stored text that is no UserInfo (a number, {}).
Null == [t |-> "null", username |-> <<>>, jobTitle |-> <<>>]
Obj(u, j) == [t |-> "object", username |-> u, jobTitle |-> j]
Zero == [t |-> "zero", username |-> <<>>, jobTitle |-> <<>>]
Num == [t |-> "number", username |-> <<>>, jobTitle |-> <<>>]
EmptyObj == [t |-> "emptyobject", username |-> <<>>, jobTitle |-> <<>>]

\* !!v
Truthy(v) == v.t \in {"object", "number", "emptyobject"}

\* v has the shape of UserInfo
IsUserInfo(v) == v.t = "object"

\* ---------------------------------------------------------- JSON.stringify
RECURSIVE Escape(_)
Escape(s) ==
    IF s = <<>> THEN <<>>
    ELSE IF Head(s) \in {QUOTE, BSLASH} THEN <<BSLASH, Head(s)>> \o Escape(Tail(s))
    ELSE <<Head(s)>> \o Escape(Tail(s))

Quoted(s) == <<QUOTE>> \o Escape(s) \o <<QUOTE>>

KeyUsername == <<QUOTE, "username", QUOTE, ":">>
KeyJobTitle == <<QUOTE, "jobTitle", QUOTE, ":">>

\* JSON.stringify of a value the context stores
Stringify(v) ==
    <<"{">> \o KeyUsername \o Quoted(v.username) \o <<",">>
            \o KeyJobTitle \o Quoted(v.jobTitle) \o <<"}">>

\* -------------------------------------------------------------- JSON.parse
\* Reads a string literal whose opening quote is at text[i]: the index of
\* its closing quote (0 when the literal is not closed) and what it denotes.
RECURSIVE ScanString(_, _, _)
ScanString(text, i, acc) ==
    IF i > Len(text) THEN [close |-> 0, s |-> acc]
    ELSE IF text[i] = QUOTE THEN [close |-> i, s |-> acc]
    ELSE IF text[i] = BSLASH
         THEN IF i + 1 > Len(text) THEN [close |-> 0, s |-> acc]
              ELSE ScanString(text, i + 2, Append(acc, text[i + 1]))
    ELSE ScanString(text, i + 1, Append(acc, text[i]))

HasAt(text, i, part) ==
    /\ i + Len(part) - 1 <= Len(text)
    /\ SubSeq(text, i, i + Len(part) - 1) = part

Thrown == [ok |-> FALSE, val |-> Null]
Parsed(v) == [ok |-> TRUE, val |-> v]

\* the object {"username": ..., "jobTitle": ...}
ParseUserInfo(text) ==
    LET i1 == 2 + Len(KeyUsername)
    IN  IF ~(HasAt(text, 1, <<"{">> \o KeyUsername) /\ HasAt(text, i1, <<QUOTE>>))
        THEN Thrown
        ELSE LET f1 == ScanString(text, i1 + 1, <<>>)
                 i2 == f1.close + 2 + Len(KeyJobTitle)
             IN  IF f1.close = 0
                    \/ ~HasAt(text, f1.close + 1, <<",">> \o KeyJobTitle \o <<QUOTE>>)
                 THEN Thrown
                 ELSE LET f2 == ScanString(text, i2 + 1, <<>>)
                      IN  IF f2.close = 0 \/ f2.close + 1 # Len(text)
                             \/ text[Len(text)] # "}"
                          THEN Thrown
                          ELSE Parsed(Obj(f1.s, f2.s))

\* texts that are JSON and no UserInfo
TextNull == <<"n", "u", "l", "l">>
TextZero == <<"0">>
TextNum == <<"4", "2">>
TextEmptyObj == <<"{", "}">>
\* texts that are no JSON
TextCut == <<"{">> \o KeyUsername
TextJunk == <<"x">>

\* JSON.parse: the value, or a SyntaxError thrown
JSONParse(text) ==
    IF text = TextNull THEN Parsed(Null)
    ELSE IF text = TextZero THEN Parsed(Zero)
    ELSE IF text = TextNum THEN Parsed(Num)
    ELSE IF text = TextEmptyObj THEN Parsed(EmptyObj)
    ELSE ParseUserInfo(text)

\* ------------------------------------------------------------ page numbers
\* A JS number as the views use it: an integer or NaN.
NaN == [nan |-> TRUE, n |-> 0]
Number(n) == [nan |-> FALSE, n |-> n]

Digits == <<"0", "1", "2", "3", "4", "5", "6", "7", "8", "9">>
IsDigit(c) == \E d \in 1..10 : Digits[d] = c
DigitValue(c) == (CHOOSE d \in 1..10 : Digits[d] = c) - 1

\* the value of the longest prefix of digits of s, after the digits acc
RECURSIVE DigitsPrefix(_, _)
DigitsPrefix(s, acc) ==
    IF s # <<>> /\ IsDigit(Head(s))
    THEN DigitsPrefix(Tail(s), 10 * acc + DigitValue(Head(s)))
    ELSE acc

\* parseInt(s), radix 10
ParseInt(s) ==
    LET t == TrimStart(s)
        neg == t # <<>> /\ Head(t) = "-"
        body == IF t # <<>> /\ Head(t) \in {"-", "+"} THEN Tail(t) ELSE t
    IN  IF body = <<>> \/ ~IsDigit(Head(body)) THEN NaN
        ELSE Number(IF neg THEN 0 - DigitsPrefix(body, 0) ELSE DigitsPrefix(body, 0))

RECURSIVE NatToString(_)
NatToString(n) ==
    IF n < 10 THEN <<Digits[n + 1]>>
    ELSE NatToString(n \div 10) \o <<Digits[(n % 10) + 1]>>

\* `${newPage}`
NumberToString(v) ==
    IF v.nan THEN <<"N", "a", "N">>
    ELSE IF v.n < 0 THEN <<"-">> \o NatToString(0 - v.n)
    ELSE NatToString(v.n)

\* the 'page' parameter of the address: absent, or its text
NoParam == [present |-> FALSE, text |-> <<>>]
Param(text) == [present |-> TRUE, text |-> text]

\* searchParams.get('page') || '1'
ParamOrDefault(p) == IF p.present /\ p.text # <<>> THEN p.text ELSE <<"1">>

\* const page = parseInt(searchParams.get('page') || '1')
PageOf(p) == ParseInt(ParamOrDefault(p))

Plus(v, k) == IF v.nan THEN NaN ELSE Number(v.n + k)
\* v <= k and v >= k as JS compares them: false for NaN
Lte(v, k) == ~v.nan /\ v.n <= k
Gte(v, k) == ~v.nan /\ v.n >= k

\* const limit = 10
limit == 10
\* const offset = (page - 1) * limit
OffsetOf(v) == IF v.nan THEN NaN ELSE Number((v.n - 1) * limit)

\* ------------------------------------------------------------------ state
VARIABLES
    hasWindow,      \* typeof window !== 'undefined': a browser, not the server pass
    storage,        \* the localStorage key 'userInfo': absent, or its text
    userInfo,       \* AuthProvider: the state slot userInfo
    mounted,        \* the tab's mount effects have run
    route,          \* the view the tab shows: "home", "characters", "launches"
    pageParam,      \* the 'page' parameter of the navigation address
    characters,     \* InformationPage (characters): the rows
    launches,       \* InformationPage (launches): the rows
    totalPages,     \* InformationPage (characters): the total-page count
    selected,       \* selectedCharacter / selectedLaunch: an id, 0 for null
    loading,        \* the list loading flag
    detailLoading,  \* the detail loading flag
    error,          \* the error slot: "null", "list" or "detail" (whose message)
    open,           \* useDisclosure: the overlay is open
    effectDeps,     \* the dependencies the fetch effect last ran with
    listInflight,   \* list queries issued and not settled (a bag)
    detailInflight, \* by-id queries issued and not settled (a bag)
    cache,          \* the Data Client's cache: Query.launches, the pages and the ids held
    screen,         \* what the last render of the view returned
    lastOp,         \* history: the last step taken
    lastArgs        \* history: the two fields that step was given

viewVars == <<characters, launches, totalPages, selected, loading, detailLoading,
              error, open>>
fetchVars == <<effectDeps, listInflight, detailInflight, cache>>
vars == <<hasWindow, storage, userInfo, mounted, route, pageParam, viewVars,
          fetchVars, screen, lastOp, lastArgs>>

ListRoutes == {"characters", "launches"}
Routes == {"home"} \cup ListRoutes

NoArgs == <<<<>>, <<>>>>

\* -------------------------------------------------------- Session Store
NoKey == [present |-> FALSE, text |-> <<>>]
Stored(text) == [present |-> TRUE, text |-> text]

\* a string or null taken as a condition: null and '' are false
StringTruthy(item) == item.present /\ item.text # <<>>

\* localStorage.removeItem('userInfo')
RemoveItem(st) == NoKey

\* isUserAuthenticated(), reading the storage st
IsUserAuthenticated(st) == IF ~hasWindow THEN FALSE ELSE StringTruthy(st)

\* AuthProvider's mount effect: whether setUserInfo is called, with what,
\* and the storage it leaves
LoadEffect(st) ==
    IF hasWindow /\ StringTruthy(st)
    THEN IF JSONParse(st.text).ok
         THEN [set |-> TRUE, val |-> JSONParse(st.text).val, storage |-> st]
         ELSE [set |-> FALSE, val |-> Null, storage |-> RemoveItem(st)]
    ELSE [set |-> FALSE, val |-> Null, storage |-> st]

\* a save that appends to the stored text
SaveAppends(st, v) ==
    IF hasWindow THEN Stored(st.text \o Stringify(v)) ELSE st

\* localStorage.setItem('userInfo', JSON.stringify(v)), in a browser
Save(st, v) == IF hasWindow THEN Stored(Stringify(v)) ELSE st

\* a sign-out that leaves the key in storage
ClearKeeps(st) == st

\* localStorage.removeItem('userInfo'), in a browser
Clear(st) == IF hasWindow THEN RemoveItem(st) ELSE st

\* isAuthenticated: !!userInfo
IsAuthenticated(ui) == Truthy(ui)

\* ------------------------------------------------------------------ render
\* a list view that skips its own storage check
RenderNoRecheck(r, ui, st, ld, er) ==
    IF r = "home" THEN (IF ~IsAuthenticated(ui) THEN "gate" ELSE "home")
    ELSE IF ~IsAuthenticated(ui) THEN "gate"
    ELSE IF ld THEN "loading"
    ELSE IF er # "null" THEN "error"
    ELSE "table"

\* a home view that never gates
RenderHomeOpen(r, ui, st, ld, er) ==
    IF r = "home" THEN "home" ELSE RenderNoRecheck(r, ui, st, ld, er)

\* a list view that looks at its loading flag before it looks at the gate
RenderLoadingFirst(r, ui, st, ld, er) ==
    IF r = "home" THEN (IF ~IsAuthenticated(ui) THEN "gate" ELSE "home")
    ELSE IF ld THEN "loading"
    ELSE IF ~IsAuthenticated(ui) \/ ~IsUserAuthenticated(st) THEN "gate"
    ELSE IF er # "null" THEN "error"
    ELSE "table"

\* a list view with no error return: the table is rendered over an error
RenderErrorAsTable(r, ui, st, ld, er) ==
    IF r = "home" THEN (IF ~IsAuthenticated(ui) THEN "gate" ELSE "home")
    ELSE IF ~IsAuthenticated(ui) \/ ~IsUserAuthenticated(st) THEN "gate"
    ELSE IF ld THEN "loading"
    ELSE "table"

\* What Home or InformationPage returns for the state it is rendered with.
Render(r, ui, st, ld, er) ==
    IF r = "home" THEN (IF ~IsAuthenticated(ui) THEN "gate" ELSE "home")
    ELSE IF ~IsAuthenticated(ui) \/ ~IsUserAuthenticated(st) THEN "gate"
    ELSE IF ld THEN "loading"
    ELSE IF er # "null" THEN "error"
    ELSE "table"

\* What the table return of InformationPage holds, read off the last render.
\* The gate, loading and error returns hold none of it.
\* the 'View Details' button of each row
DetailButtonsShown == screen = "table" /\ (IF route = "characters" THEN characters ELSE launches) # <<>>
\* the 'Previous' and 'Next' buttons
PaginationShown == screen = "table"
\* {open && (...)}: the overlay
OverlayShown == screen = "table" /\ open
\* {detailLoading && <Text>Loading details...</Text>}, inside the overlay
LoadingMarkerShown == OverlayShown /\ detailLoading

\* ------------------------------------------------------------ fetch effect
NoDeps == [ran |-> FALSE, auth |-> FALSE, page |-> NaN]

\* a dependency list that also holds the error slot: a failure re-runs the effect
DepsOfWithError(r, ui, pp) ==
    [ran |-> TRUE, auth |-> IsAuthenticated(ui),
     page |-> IF r = "launches" THEN OffsetOf(PageOf(pp)) ELSE PageOf(pp),
     err |-> error]

\* [isAuthenticated, page] and [isAuthenticated, limit, offset]
DepsOf(r, ui, pp) ==
    [ran |-> TRUE, auth |-> IsAuthenticated(ui),
     page |-> IF r = "launches" THEN OffsetOf(PageOf(pp)) ELSE PageOf(pp)]

\* the fetch effect has to run: its dependencies changed in the last render
EffectPending ==
    /\ mounted
    /\ route \in ListRoutes
    /\ DepsOf(route, userInfo, pageParam) # effectDeps

\* the tab can take an event: it is a mounted browser tab with no effect to flush
Idle == hasWindow /\ mounted /\ ~EffectPending

\* ------------------------------------------------------------- environment
\* what the upstream sources hold
ServerPages == 2
PerPage == 1
TotalLaunches == 11
\* the page of a launches view is not taken beyond this
MaxPage == 2
\* queries (list and by-id together) in flight at once
MaxInflight == 2

Min(a, b) == IF a <= b THEN a ELSE b

\* the characters of page p (ids)
ServerCharacters(p) == [k \in 1..PerPage |-> (p - 1) * PerPage + k]
\* the launches at offset..offset+limit-1 (ids)
ServerLaunches(off) ==
    IF off >= TotalLaunches THEN <<>>
    ELSE [k \in 1..(Min(off + limit, TotalLaunches) - off) |-> off + k]

\* the upstream source has data for this argument (a page, an offset)
HasPage(r, arg) ==
    IF r = "characters" THEN ~arg.nan /\ arg.n \in 1..ServerPages
    ELSE ~arg.nan /\ arg.n >= 0

Outcomes == {"data", "nodata", "throw"}

SeqToSet(q) == {q[k] : k \in 1..Len(q)}

\* the storage the tab can find or another tab or the developer can leave
AnIdentity == Obj(<<"a">>, <<QUOTE>>)
CorruptTexts == {TextNum, TextEmptyObj, TextCut, TextJunk}
SessionStorages ==
    {NoKey} \cup {Stored(t) : t \in CorruptTexts}
            \cup {Stored(Stringify(AnIdentity)), Stored(Stringify(Obj(<<>>, <<SPACE>>)))}
ViewStorages == {NoKey, Stored(Stringify(AnIdentity)), Stored(TextNum), Stored(TextJunk)}
OutOfBandStorages == {NoKey, Stored(Stringify(AnIdentity))}

\* the form fields and addresses tried in the list views
ViewNames == {<<SPACE>>, <<"a", SPACE>>}
ViewTitles == {<<QUOTE>>}
AddressParams == {NoParam, Param(<<"2">>), Param(<<"0">>), Param(<<"x">>)}

\* ------------------------------------------------------------------- init
NoCache == [present |-> FALSE, list |-> <<>>, pages |-> {}, details |-> {}]

\* the view's state slots as useState initialises them
ViewInit ==
    /\ characters = <<>>
    /\ launches = <<>>
    /\ totalPages = 1
    /\ selected = 0
    /\ loading = TRUE
    /\ detailLoading = FALSE
    /\ error = "null"
    /\ open = FALSE

\* The state after construction: the first render, before any effect ran.
InitWith(storages, routes, params) ==
    /\ hasWindow \in BOOLEAN
    /\ storage \in (IF hasWindow THEN storages ELSE {NoKey})
    /\ userInfo = Null
    /\ mounted = FALSE
    /\ route \in routes
    /\ pageParam \in (IF route = "home" THEN {NoParam} ELSE params)
    /\ ViewInit
    /\ effectDeps = NoDeps
    /\ listInflight = EmptyBag
    /\ detailInflight = EmptyBag
    /\ cache = NoCache
    /\ screen = Render(route, userInfo, storage, loading, error)
    /\ lastOp = "init"
    /\ lastArgs = NoArgs

Init == InitWith(ViewStorages, Routes, AddressParams)
InitSession == InitWith(SessionStorages, {"home"}, {NoParam})

\* -------------------------------------------------------- Session Context
\* The mount effects of the tab, in one pass: the view's fetch effect first
\* (it sees isAuthenticated false and fetches nothing), then AuthProvider's
\* load effect; the render its setUserInfo causes.
Mount ==
    /\ hasWindow /\ ~mounted
    /\ mounted' = TRUE
    /\ effectDeps' = (IF route \in ListRoutes
                      THEN DepsOf(route, userInfo, pageParam) ELSE NoDeps)
    /\ userInfo' = (IF LoadEffect(storage).set THEN LoadEffect(storage).val ELSE userInfo)
    /\ storage' = LoadEffect(storage).storage
    /\ screen' = (IF LoadEffect(storage).set
                  THEN Render(route, userInfo', storage', loading, error) ELSE screen)
    /\ lastOp' = "mount"
    /\ lastArgs' = NoArgs
    /\ UNCHANGED <<hasWindow, route, pageParam, viewVars, listInflight,
                   detailInflight, cache>>

\* a login that drops a field it finds empty, keeping the old identity
LoginValueChecked(cur, u, j) == IF u = <<>> \/ j = <<>> THEN cur ELSE Obj(u, j)

\* const newUserInfo: UserInfo = { username, jobTitle }
LoginValue(cur, u, j) == Obj(u, j)

\* login(username, jobTitle): the state and the storage it leaves
loginDo(u, j) ==
    /\ userInfo' = LoginValue(userInfo, u, j)
    /\ storage' = Save(storage, LoginValue(userInfo, u, j))

\* updateUserInfo(updatedInfo)
updateUserInfoDo(v) ==
    /\ userInfo' = v
    /\ storage' = Save(storage, v)

\* logout()
logoutDo ==
    /\ userInfo' = Null
    /\ storage' = Clear(storage)

\* a consumer of the context calls login
login(u, j) ==
    /\ Idle
    /\ loginDo(u, j)
    /\ screen' = Render(route, userInfo', storage', loading, error)
    /\ lastOp' = "login"
    /\ lastArgs' = <<u, j>>
    /\ UNCHANGED <<hasWindow, mounted, route, pageParam, viewVars, fetchVars>>

\* a consumer of the context calls updateUserInfo
updateUserInfo(u, j) ==
    /\ Idle
    /\ updateUserInfoDo(Obj(u, j))
    /\ screen' = Render(route, userInfo', storage', loading, error)
    /\ lastOp' = "update"
    /\ lastArgs' = <<u, j>>
    /\ UNCHANGED <<hasWindow, mounted, route, pageParam, viewVars, fetchVars>>

\* Home's handleLogout, or any consumer of the context calling logout; the
\* view renders again when the state slot changed
logout ==
    /\ Idle
    /\ logoutDo
    /\ screen' = (IF userInfo = Null THEN screen
                  ELSE Render(route, userInfo', storage', loading, error))
    /\ lastOp' = "logout"
    /\ lastArgs' = NoArgs
    /\ UNCHANGED <<hasWindow, mounted, route, pageParam, viewVars, fetchVars>>

\* --------------------------------------------------------------- Gate View
\* the validation of handleSubmit without the trim
RejectedUntrimmed(u, j) == u = <<>> \/ j = <<>>

\* if (!username.trim() || !jobTitle.trim())
Rejected(u, j) == Trim(u) = <<>> \/ Trim(j) = <<>>

\* a form that always signs in
UpdateModeNever(ui) == FALSE

\* if (userInfo): the form is in update mode
UpdateMode(ui) == Truthy(ui)

\* the identity handleSubmit passes on
Submitted(u, j) == Obj(Trim(u), Trim(j))

\* AuthBlock's handleSubmit with the fields u and j
handleSubmit(u, j) ==
    /\ Idle
    /\ screen = "gate"
    /\ lastArgs' = <<u, j>>
    /\ IF Rejected(u, j)
       THEN /\ lastOp' = "submitRejected"
            /\ UNCHANGED <<userInfo, storage, screen>>
       ELSE /\ IF UpdateMode(userInfo)
               THEN /\ updateUserInfoDo(Submitted(u, j))
                    /\ lastOp' = "submitUpdate"
               ELSE /\ loginDo(Submitted(u, j).username, Submitted(u, j).jobTitle)
                    /\ lastOp' = "submitLogin"
            /\ screen' = Render(route, userInfo', storage', loading, error)
    /\ UNCHANGED <<hasWindow, mounted, route, pageParam, viewVars, fetchVars>>

\* ------------------------------------------------------------- environment
\* another tab or the developer tools change the key; this tab is not told
StorageChanged(st) ==
    /\ hasWindow
    /\ st # storage
    /\ storage' = st
    /\ lastOp' = "storage"
    /\ lastArgs' = NoArgs
    /\ UNCHANGED <<hasWindow, userInfo, mounted, route, pageParam, viewVars,
                   fetchVars, screen>>

\* the tab is reloaded, or leaves for another route by a full page load
\* (window.location.href): a fresh first render over the same storage
Reload(r, pp) ==
    /\ hasWindow
    /\ mounted
    /\ route' = r
    /\ pageParam' = pp
    /\ userInfo' = Null
    /\ mounted' = FALSE
    /\ characters' = <<>>
    /\ launches' = <<>>
    /\ totalPages' = 1
    /\ selected' = 0
    /\ loading' = TRUE
    /\ detailLoading' = FALSE
    /\ error' = "null"
    /\ open' = FALSE
    /\ effectDeps' = NoDeps
    /\ listInflight' = EmptyBag
    /\ detailInflight' = EmptyBag
    /\ cache' = NoCache
    /\ screen' = Render(r, userInfo', storage, loading', error')
    /\ lastOp' = "reload"
    /\ lastArgs' = NoArgs
    /\ UNCHANGED <<hasWindow, storage>>

\* ---------------------------------------- the session, on the home view
NextSession ==
    \/ Mount
    \/ \E u \in Names, j \in Titles : handleSubmit(u, j)
    \/ \E u \in Names, j \in Titles : login(u, j)
    \/ \E u \in Names, j \in Titles : updateUserInfo(u, j)
    \/ logout
    \/ \E st \in SessionStorages : StorageChanged(st)
    \/ Reload("home", NoParam)

SpecSession == InitSession /\ [][NextSession]_vars

\* --------------------------- the session in one tab, nobody else writing
\* The tab finds whatever the storage holds when it starts; after that only
\* this tab's own operations and its reloads touch the storage.
NextTab ==
    \/ Mount
    \/ \E u \in Names, j \in Titles : handleSubmit(u, j)
    \/ \E u \in Names, j \in Titles : login(u, j)
    \/ \E u \in Names, j \in Titles : updateUserInfo(u, j)
    \/ logout
    \/ Reload("home", NoParam)

SpecTab == InitSession /\ [][NextTab]_vars

\* -------------------------------------------------------------- List View
page == PageOf(pageParam)
Rows == IF route = "characters" THEN characters ELSE launches

\* a guard that trusts the context alone
ShouldFetchContextOnly(ui, st) == IsAuthenticated(ui)

\* if (isAuthenticated && isUserAuthenticated())
ShouldFetch(ui, st) == IsAuthenticated(ui) /\ IsUserAuthenticated(st)

\* apolloClient.query({query, variables}): the variables sent
Request(r, pp) ==
    IF r = "launches" THEN [arg |-> OffsetOf(PageOf(pp))] ELSE [arg |-> PageOf(pp)]

\* The cache-first policy answers a query from the cache, with no request
\* sent, once the cache holds what it asks for: the field launches is stored
\* under one key whatever its arguments (keyArgs: false), so any answer with
\* data answers every later launches query; characters(page) and the by-id
\* fields are stored per argument.
AnsweredFromCache(r, arg) ==
    IF r = "launches" THEN cache.present
    ELSE ~arg.nan /\ arg.n \in cache.pages

DetailFromCache(id) == id \in cache.details

\* what a list query answered from the cache returns
CachedRows(r, arg) == IF r = "launches" THEN cache.list ELSE ServerCharacters(arg.n)

CanFetchMore ==
    BagCardinality(listInflight) + BagCardinality(detailInflight) < MaxInflight

\* rows that pile up on the rows already held
RowsAppended(old, new) == old \o new

\* setCharacters(result.data?.characters?.results || [])
RowsReplaced(old, new) == new

\* a success leaves the error slot as it is
ErrorAfterSuccess(er) == er

\* The fetch effect of InformationPage, run because [isAuthenticated, page]
\* (or [isAuthenticated, limit, offset]) changed: fetchCharacters() or
\* fetchLaunches() up to the await, when the guard lets it. A query the
\* cache answers settles before the tab takes its next event, so all of
\* fetchCharacters() is in this step.
FetchEffect ==
    /\ hasWindow
    /\ EffectPending
    /\ effectDeps' = DepsOf(route, userInfo, pageParam)
    /\ IF ~ShouldFetch(userInfo, storage)
       THEN /\ lastOp' = "fetchSkipped"
            /\ UNCHANGED <<loading, listInflight, characters, launches,
                           totalPages, error, screen>>
       ELSE IF AnsweredFromCache(route, Request(route, pageParam).arg)
       THEN /\ IF route = "launches"
               THEN /\ launches' = RowsReplaced(launches, CachedRows(route, Request(route, pageParam).arg))
                    /\ UNCHANGED <<characters, totalPages>>
               ELSE /\ characters' = RowsReplaced(characters, CachedRows(route, Request(route, pageParam).arg))
                    /\ totalPages' = ServerPages
                    /\ UNCHANGED launches
            /\ error' = ErrorAfterSuccess(error)
            /\ loading' = FALSE
            /\ screen' = Render(route, userInfo, storage, loading', error')
            /\ lastOp' = "fetchCached"
            /\ UNCHANGED listInflight
       ELSE /\ loading' = TRUE
            /\ listInflight' = listInflight (+) SetToBag({Request(route, pageParam)})
            /\ screen' = Render(route, userInfo, storage, loading', error)
            /\ lastOp' = "fetchIssued"
            /\ UNCHANGED <<characters, launches, totalPages, error>>
    /\ lastArgs' = NoArgs
    /\ UNCHANGED <<hasWindow, storage, userInfo, mounted, route, pageParam,
                   selected, detailLoading, open, detailInflight, cache>>

\* how a list query can settle
CanSettle(r, req, outcome) == outcome = "data" => HasPage(r, req.arg)

\* merge(existing = [], incoming) of the launches field policy
merge(existing, incoming) == existing \o incoming

\* Queries with the same document and variables in flight at once share one
\* request (the client's query deduplication), so they settle together,
\* with the same outcome; each of them writes its answer to the cache.
Without(bag, e) == bag (-) (e :> CopiesIn(e, bag))

RECURSIVE MergeTimes(_, _, _)
MergeTimes(existing, incoming, k) ==
    IF k = 0 THEN existing ELSE MergeTimes(merge(existing, incoming), incoming, k - 1)

\* a view that drops the response of a request the page has moved on from
AcceptedIfCurrent(r, req) == req = Request(r, pageParam)

\* fetchCharacters() and fetchLaunches() hold no handle on their request and
\* compare nothing on arrival: the code after the await runs for every response
Accepted(r, req) == TRUE

\* the outcome the code after the await sees
Arrived(r, req, outcome) == IF Accepted(r, req) THEN outcome ELSE "dropped"

\* fetchCharacters() from the await on, for a settled request
SettleCharacters(req, outcome) ==
    /\ Idle
    /\ route = "characters"
    /\ BagIn(req, listInflight)
    /\ CanSettle(route, req, outcome)
    /\ listInflight' = Without(listInflight, req)
    /\ cache' =
         (IF outcome = "data"
          THEN [cache EXCEPT !.pages = cache.pages \cup {req.arg.n}]
          ELSE cache)
    /\ characters' =
         (IF Arrived(route, req, outcome) = "data" THEN RowsReplaced(characters, ServerCharacters(req.arg.n))
          ELSE IF Arrived(route, req, outcome) = "nodata" THEN RowsReplaced(characters, <<>>)
          ELSE characters)
    /\ totalPages' =
         (IF Arrived(route, req, outcome) = "data" THEN ServerPages
          ELSE IF Arrived(route, req, outcome) = "nodata" THEN 1
          ELSE totalPages)
    /\ error' = (IF Arrived(route, req, outcome) = "throw" THEN "list" ELSE ErrorAfterSuccess(error))
    /\ loading' = FALSE
    /\ screen' = Render(route, userInfo, storage, loading', error')
    /\ lastOp' = (IF outcome = "data" THEN "listData"
                  ELSE IF outcome = "nodata" THEN "listNoData" ELSE "listThrow")
    /\ lastArgs' = NoArgs
    /\ UNCHANGED <<hasWindow, storage, userInfo, mounted, route, pageParam,
                   launches, selected, detailLoading, open, effectDeps,
                   detailInflight>>

\* fetchLaunches() from the await on, for a settled request: a network answer
\* is merged into the cache field and the field is what the query returns
SettleLaunches(req, outcome) ==
    /\ Idle
    /\ route = "launches"
    /\ BagIn(req, listInflight)
    /\ CanSettle(route, req, outcome)
    /\ listInflight' = Without(listInflight, req)
    /\ cache' =
         (IF outcome = "data"
          THEN [cache EXCEPT !.present = TRUE,
                             !.list = MergeTimes(cache.list, ServerLaunches(req.arg.n),
                                                 CopiesIn(req, listInflight))]
          ELSE cache)
    /\ launches' =
         (IF Arrived(route, req, outcome) = "data" THEN RowsReplaced(launches, cache'.list)
          ELSE IF Arrived(route, req, outcome) = "nodata" THEN RowsReplaced(launches, <<>>)
          ELSE launches)
    /\ error' = (IF Arrived(route, req, outcome) = "throw" THEN "list" ELSE ErrorAfterSuccess(error))
    /\ loading' = FALSE
    /\ screen' = Render(route, userInfo, storage, loading', error')
    /\ lastOp' = (IF outcome = "data" THEN "listData"
                  ELSE IF outcome = "nodata" THEN "listNoData" ELSE "listThrow")
    /\ lastArgs' = NoArgs
    /\ UNCHANGED <<hasWindow, storage, userInfo, mounted, route, pageParam,
                   characters, totalPages, selected, detailLoading, open,
                   effectDeps, detailInflight>>

\* The row whose 'View Details' button the user presses: the first of the
\* table, which stands for the others (the handler does not look at the
\* row's position).
Pressed == IF Rows = <<>> THEN {} ELSE {Rows[1]}

\* fetchCharacterDetails(id) / fetchLaunchDetails(id) up to the await: the
\* 'View Details' button of a row of the table. A by-id query the cache
\* answers runs the handler to its end in this step.
ViewDetails(id) ==
    /\ Idle
    /\ DetailButtonsShown
    /\ id \in Pressed
    /\ IF DetailFromCache(id)
       THEN /\ selected' = id
            /\ open' = TRUE
            /\ detailLoading' = FALSE
            /\ lastOp' = "detailCached"
            /\ UNCHANGED detailInflight
       ELSE /\ CanFetchMore
            /\ detailLoading' = TRUE
            /\ detailInflight' = detailInflight (+) SetToBag({id})
            /\ lastOp' = "details"
            /\ UNCHANGED <<selected, open>>
    /\ screen' = Render(route, userInfo, storage, loading, error)
    /\ lastArgs' = NoArgs
    /\ UNCHANGED <<hasWindow, storage, userInfo, mounted, route, pageParam,
                   characters, launches, totalPages, loading, error,
                   effectDeps, listInflight, cache>>

\* fetchCharacterDetails / fetchLaunchDetails from the await on
SettleDetail(id, outcome) ==
    /\ Idle
    /\ route \in ListRoutes
    /\ BagIn(id, detailInflight)
    /\ detailInflight' = Without(detailInflight, id)
    /\ cache' =
         (IF outcome = "data"
          THEN [cache EXCEPT !.details = cache.details \cup {id}]
          ELSE cache)
    /\ selected' = (IF outcome = "data" THEN id
                    ELSE IF outcome = "nodata" THEN 0 ELSE selected)
    /\ open' = (IF outcome = "throw" THEN open ELSE TRUE)
    /\ error' = (IF outcome = "throw" THEN "detail" ELSE error)
    /\ detailLoading' = FALSE
    /\ screen' = Render(route, userInfo, storage, loading, error')
    /\ lastOp' = (IF outcome = "data" THEN "detailData"
                  ELSE IF outcome = "nodata" THEN "detailNoData" ELSE "detailThrow")
    /\ lastArgs' = NoArgs
    /\ UNCHANGED <<hasWindow, storage, userInfo, mounted, route, pageParam,
                   characters, launches, totalPages, loading, effectDeps,
                   listInflight>>

\* onClose of the overlay
CloseOverlay ==
    /\ Idle
    /\ screen = "table"
    /\ open
    /\ open' = FALSE
    /\ screen' = Render(route, userInfo, storage, loading, error)
    /\ lastOp' = "close"
    /\ lastArgs' = NoArgs
    /\ UNCHANGED <<hasWindow, storage, userInfo, mounted, route, pageParam,
                   characters, launches, totalPages, selected, loading,
                   detailLoading, error, fetchVars>>

\* The navigation address changes under the mounted view (router.push, or
\* the browser's back and forward); the view renders with the new page.
Navigate(pp, op) ==
    /\ pageParam' = pp
    /\ screen' = Render(route, userInfo, storage, loading, error)
    /\ lastOp' = op
    /\ lastArgs' = NoArgs
    /\ UNCHANGED <<hasWindow, storage, userInfo, mounted, route, viewVars, fetchVars>>

AddressChange(pp) ==
    /\ Idle
    /\ route \in ListRoutes
    /\ pp # pageParam
    /\ CanFetchMore
    /\ Navigate(pp, "address")

\* router.push(`/information?page=${newPage}`)
handlePageChange(newPage, op) == Navigate(Param(NumberToString(newPage)), op)

\* a 'Previous' button disabled on page 1 only
PrevDisabledAtOne == page = Number(1)

\* disabled={page <= 1}
PrevDisabled == Lte(page, 1)

\* disabled={page >= totalPages}; the launches view has no such attribute
NextDisabled == IF route = "characters" THEN Gte(page, totalPages) ELSE FALSE

\* the 'Previous' button
PrevPage ==
    /\ Idle
    /\ screen = "table"
    /\ ~PrevDisabled
    /\ CanFetchMore
    /\ handlePageChange(Plus(page, -1), "prev")

\* the 'Next' button
NextPage ==
    /\ Idle
    /\ screen = "table"
    /\ ~NextDisabled
    /\ page.nan \/ page.n < MaxPage
    /\ CanFetchMore
    /\ handlePageChange(Plus(page, 1), "next")

\* the gate form of a view, with a query budget left for the fetch it starts
Submit(u, j) == CanFetchMore /\ handleSubmit(u, j)

\* ------------------------------------------- the tab, on any of its views
\* Every step of the tab but the detail overlay's.
Next ==
    \/ Mount
    \/ FetchEffect
    \/ \E u \in ViewNames, j \in ViewTitles : Submit(u, j)
    \/ logout
    \/ \E st \in OutOfBandStorages : StorageChanged(st)
    \/ \E r \in Routes, pp \in AddressParams :
          (r = "home" => pp = NoParam) /\ Reload(r, pp)
    \/ \E pp \in AddressParams : AddressChange(pp)
    \/ PrevPage
    \/ NextPage
    \/ \E req \in BagToSet(listInflight), o \in Outcomes : SettleCharacters(req, o)
    \/ \E req \in BagToSet(listInflight), o \in Outcomes : SettleLaunches(req, o)

Spec == Init /\ [][Next]_vars

\* ------------------------------------ a list view with its detail overlay
\* The tab stays on one list view, entered at page 1; nobody else touches
\* the storage.
InitDetail == InitWith({NoKey, Stored(Stringify(AnIdentity))}, ListRoutes, {NoParam})

NextDetail ==
    \/ Mount
    \/ FetchEffect
    \/ \E u \in ViewNames, j \in ViewTitles : Submit(u, j)
    \/ logout
    \/ PrevPage
    \/ NextPage
    \/ \E req \in BagToSet(listInflight), o \in Outcomes : SettleCharacters(req, o)
    \/ \E req \in BagToSet(listInflight), o \in Outcomes : SettleLaunches(req, o)
    \/ \E id \in Pressed : ViewDetails(id)
    \/ \E id \in BagToSet(detailInflight), o \in Outcomes : SettleDetail(id, o)
    \/ CloseOverlay

SpecDetail == InitDetail /\ [][NextDetail]_vars

\* ------------------ a list view with its overlay, another tab signing
\* The list view of SpecDetail, with another tab that signs out and in on
\* the same storage.
NextView ==
    \/ NextDetail
    \/ \E st \in OutOfBandStorages : StorageChanged(st)

SpecView == InitDetail /\ [][NextView]_vars

\* --------------------------- a list view followed until its loading ends
\* The list view with the gate form, address changes, and another tab that
\* clears the storage. The tab's own steps are not left waiting: the mount
\* effects and a fetch effect whose dependencies changed run after the
\* render that scheduled them, and every query in flight settles.
Settle ==
    \E req \in BagToSet(listInflight), o \in Outcomes :
        SettleCharacters(req, o) \/ SettleLaunches(req, o)

NextLoading ==
    \/ Mount
    \/ FetchEffect
    \/ \E u \in ViewNames, j \in ViewTitles : Submit(u, j)
    \/ StorageChanged(NoKey)
    \/ \E pp \in {NoParam, Param(<<"2">>)} : AddressChange(pp)
    \/ \E req \in BagToSet(listInflight), o \in Outcomes : SettleCharacters(req, o)
    \/ \E req \in BagToSet(listInflight), o \in Outcomes : SettleLaunches(req, o)

SpecLoading ==
    /\ InitDetail
    /\ [][NextLoading]_vars
    /\ WF_vars(Mount)
    /\ WF_vars(FetchEffect)
    /\ WF_vars(Settle)

\* ================================================================= claims
SubmitOps == {"submitRejected", "submitLogin", "submitUpdate"}
AcceptedOps == {"submitLogin", "submitUpdate"}
SettleOps == {"listData", "listNoData", "listThrow",
              "detailData", "detailNoData", "detailThrow"}
EmptyField(args) == args[1] = <<>> \/ args[2] = <<>>
EmptyAfterTrim(args) == TrimEnd(TrimStart(args[1])) = <<>> \/ TrimEnd(TrimStart(args[2])) = <<>>
Trimmed(args) == Obj(TrimEnd(TrimStart(args[1])), TrimEnd(TrimStart(args[2])))

\* the identity the last step wrote through the context, if it wrote one
WroteDirect == lastOp \in {"login", "update"}
WroteByGate == lastOp \in AcceptedOps

\* C1: in a browser, after signIn(displayName, title), update(identity) or an
\* accepted gate submission wrote the identity I, whatever was stored before,
\* a reload (the load effect run on the storage as it then is) sets the
\* current identity to a value equal to I field for field.
C1_RoundTrip ==
    /\ WroteDirect =>
          /\ LoadEffect(storage).set
          /\ LoadEffect(storage).val = Obj(lastArgs[1], lastArgs[2])
          /\ LoadEffect(storage).storage = storage
    /\ WroteByGate =>
          /\ LoadEffect(storage).set
          /\ LoadEffect(storage).val = Trimmed(lastArgs)
          /\ LoadEffect(storage).storage = storage

\* C1 witness: a reloaded tab whose load effect restored an identity that only
\* a signIn or an update of this tab can have stored
C1_Witness ==
    /\ lastOp = "mount"
    /\ userInfo = Obj(<<"a", "a">>, <<QUOTE>>)

\* C2: the first render of every gated view is the Gate View, and while the
\* storage key is absent a view that shows the Gate View goes on showing it
\* in every step but an accepted gate submission.
C2_GateUntilSubmit ==
    /\ [](~mounted => screen = "gate")
    /\ [][(storage = NoKey /\ screen = "gate")
            => (screen' = "gate" \/ lastOp' \in AcceptedOps)]_vars

\* C2 witness: a list view mounted over an empty storage, showing the gate
C2_Witness ==
    /\ lastOp = "mount"
    /\ route = "characters"
    /\ storage = NoKey
    /\ screen = "gate"

\* C3: a gate submission with a field that is empty after trimming is
\* rejected: it calls neither login nor updateUserInfo, the stored value and
\* the current identity stay as they were, and the Gate View stays.
C3_EmptyFieldRejected ==
    [][(lastOp' \in SubmitOps /\ EmptyAfterTrim(lastArgs'))
         => /\ lastOp' = "submitRejected"
            /\ userInfo' = userInfo
            /\ storage' = storage
            /\ screen' = "gate"]_vars

\* C3 witness: a whitespace-only username was submitted over a storage that
\* holds an identity
C3_Witness ==
    /\ lastOp = "submitRejected"
    /\ lastArgs = <<<<SPACE, SPACE>>, <<QUOTE>>>>
    /\ storage = Stored(Stringify(AnIdentity))
    /\ screen = "gate"

\* C4: a gate submission with both fields non-empty after trimming calls
\* login when the context holds no identity and updateUserInfo when it holds
\* one, with the trimmed fields; the identity written has two non-empty
\* fields, is stored, and the context is present afterwards.
C4_SubmitAccepted ==
    [][(lastOp' \in SubmitOps /\ ~EmptyAfterTrim(lastArgs'))
         => /\ lastOp' = (IF IsAuthenticated(userInfo) THEN "submitUpdate" ELSE "submitLogin")
            /\ userInfo' = Trimmed(lastArgs')
            /\ userInfo'.username # <<>> /\ userInfo'.jobTitle # <<>>
            /\ storage' = Stored(Stringify(Trimmed(lastArgs')))
            /\ IsAuthenticated(userInfo')]_vars

\* C4 witness: the form was submitted in update mode with a username to trim
C4_Witness ==
    /\ lastOp = "submitUpdate"
    /\ lastArgs = <<<<"a", SPACE>>, <<QUOTE>>>>
    /\ userInfo = Obj(<<"a">>, <<QUOTE>>)

\* C5: a sign-out in a mounted List View leaves the Gate View rendered,
\* whatever list or detail query is in flight, and while nobody is signed in
\* a response that settles does not bring the loading, error or table view
\* back.
C5_SignOutGates ==
    /\ [][lastOp' = "logout" => (screen' = "gate" /\ ~IsAuthenticated(userInfo'))]_vars
    /\ [][(lastOp' \in SettleOps /\ ~IsAuthenticated(userInfo)) => screen' = "gate"]_vars

\* C5 witness: a list response settled after the sign-out (a query is only
\* issued while signed in) and the gate is still what the view shows
C5_Witness ==
    /\ lastOp = "listData"
    /\ userInfo = Null
    /\ mounted
    /\ screen = "gate"

\* C6: a list query is issued only by the fetch effect and only when the
\* identity is present in the context and in the storage; every render of a
\* List View with the identity absent from the context or from the storage
\* is the Gate View.
C6_FetchOnlyWhenPresent ==
    /\ [][BagCardinality(listInflight') > BagCardinality(listInflight)
            => lastOp' = "fetchIssued"]_vars
    /\ [][lastOp' \in {"fetchIssued", "fetchCached"}
            => /\ IsAuthenticated(userInfo)
               /\ hasWindow /\ StringTruthy(storage)]_vars
    /\ [][(lastOp' = "fetchSkipped")
            => (listInflight' = listInflight /\ UNCHANGED <<characters, launches>>)]_vars
    /\ [][(/\ route' \in ListRoutes
           /\ lastOp' \notin {"storage", "fetchSkipped"}
           /\ ~IsAuthenticated(userInfo') \/ ~StringTruthy(storage'))
            => screen' = "gate"]_vars

\* C6 witness: the storage was cleared behind a signed-in list view; the
\* effect ran, issued nothing, and the view shows the gate
C6_Witness ==
    /\ lastOp = "fetchSkipped"
    /\ route \in ListRoutes
    /\ IsAuthenticated(userInfo)
    /\ storage = NoKey
    /\ listInflight = EmptyBag
    /\ screen = "gate"

\* C7: at load, every stored value that is no identity (malformed text, or
\* JSON that is no object with the two fields) leaves the session absent and
\* is removed from the storage.
C7_NonIdentityPurged ==
    [][(lastOp' = "mount" /\ storage.present /\ ~ParseUserInfo(storage.text).ok)
         => (~IsAuthenticated(userInfo') /\ userInfo' = Null /\ storage' = NoKey)]_vars

\* C8: after logout the current identity is absent, isAuthenticated is
\* false, the storage key does not exist and a reload loads nothing.
C8_SignOutClears ==
    lastOp = "logout" =>
        /\ userInfo = Null
        /\ ~IsAuthenticated(userInfo)
        /\ storage = NoKey
        /\ ~LoadEffect(storage).set

\* C8 witness: logout was called in a mounted browser tab
C8_Witness ==
    /\ lastOp = "logout"
    /\ hasWindow /\ mounted
    /\ screen = "gate"

\* C9 as claimed: login with an empty field changes neither the current
\* identity nor the stored value.
C9_EmptyLoginNoOp ==
    [][(lastOp' = "login" /\ EmptyField(lastArgs'))
         => (userInfo' = userInfo /\ storage' = storage)]_vars

\* C9 amended: login does not reject an empty field: it makes the identity
\* built from the fields as given the current one and stores it.
C9_EmptyLoginStored ==
    [][(lastOp' = "login" /\ EmptyField(lastArgs'))
         => /\ userInfo' = Obj(lastArgs'[1], lastArgs'[2])
            /\ IsAuthenticated(userInfo')
            /\ storage' = Stored(Stringify(Obj(lastArgs'[1], lastArgs'[2])))]_vars

\* C9 witness: login was called with two empty fields
C9_Witness ==
    /\ lastOp = "login"
    /\ lastArgs = <<<<>>, <<>>>>
    /\ userInfo = Obj(<<>>, <<>>)
    /\ storage = Stored(Stringify(Obj(<<>>, <<>>)))

C11_ListFailureShown ==
    /\ [][lastOp' = "listThrow"
            => /\ error' = "list"
               /\ screen' \in {"error", "gate"}
               /\ (IsAuthenticated(userInfo) /\ StringTruthy(storage)) => screen' = "error"]_vars
    /\ [][screen = "error"
            => BagCardinality(detailInflight') <= BagCardinality(detailInflight)]_vars
    /\ [](screen = "error" => ~DetailButtonsShown)

\* C11 witness: rows are held from an earlier success, a later list query
\* threw, and the error state is what the view shows
C11_Witness ==
    /\ lastOp = "listThrow"
    /\ error = "list"
    /\ screen = "error"
    /\ Rows # <<>>

\* C12: every list response with data, in a signed-in view, replaces the rows
\* and the total-page count by what it carries and leaves the table
\* rendered, whatever failed before it in the same view instance.
C12_SuccessShowsTable ==
    [][(lastOp' = "listData" /\ IsAuthenticated(userInfo') /\ StringTruthy(storage'))
         => /\ route = "characters" =>
                 \E req \in BagToSet(listInflight) :
                    /\ listInflight' = listInflight (-) (req :> CopiesIn(req, listInflight))
                    /\ characters' = ServerCharacters(req.arg.n)
                    /\ totalPages' = ServerPages
            /\ screen' = "table"]_vars

\* C13: a by-id query that throws while the table is shown leaves the rows,
\* the error slot and the rendered table as they were, and the overlay is
\* shown.
C13_DetailFailureIsolated ==
    [][(lastOp' = "detailThrow" /\ screen = "table")
         => /\ UNCHANGED <<characters, launches>>
            /\ error' = error
            /\ screen' = "table"
            /\ OverlayShown']_vars

\* C14: in a view that shows the table, while a by-id query is pending the
\* overlay is shown with its loading marker.
C14_OverlayWhilePending ==
    (screen = "table" /\ detailInflight # EmptyBag) => LoadingMarkerShown

\* C15: every render of a signed-in List View made while a list query is
\* pending returns the loading indicator.
C15_LoadingWhilePending ==
    [][(/\ lastOp' # "storage"
        /\ route' \in ListRoutes
        /\ mounted'
        /\ listInflight' # EmptyBag
        /\ IsAuthenticated(userInfo') /\ StringTruthy(storage'))
         => screen' = "loading"]_vars

\* C16: 'Previous' is disabled exactly when the page is a number not above
\* 1, and is pressed only otherwise; in the characters view 'Next' is
\* disabled exactly when the page is a number that has reached totalPages,
\* and is pressed only otherwise; in the launches view 'Next' is never
\* disabled.
C16_PaginationControls ==
    /\ [](route \in ListRoutes
            => (PrevDisabled <=> (~PageOf(pageParam).nan /\ PageOf(pageParam).n <= 1)))
    /\ [](route = "characters"
            => (NextDisabled <=> (~PageOf(pageParam).nan /\ PageOf(pageParam).n >= totalPages)))
    /\ [](route = "launches" => ~NextDisabled)
    /\ [][lastOp' = "prev"
            => (PaginationShown /\ ~(~PageOf(pageParam).nan /\ PageOf(pageParam).n <= 1))]_vars
    /\ [][(lastOp' = "next" /\ route = "characters")
            => (PaginationShown /\ ~(~PageOf(pageParam).nan /\ PageOf(pageParam).n >= totalPages))]_vars
    /\ [][(lastOp' = "next" /\ route = "launches") => PaginationShown]_vars

\* C16 witness: the characters table on its last page, reached by 'Next':
\* 'Next' is disabled and 'Previous' is not
C16_Witness ==
    /\ route = "characters"
    /\ PaginationShown
    /\ effectDeps.page = Number(ServerPages)
    /\ PageOf(pageParam) = Number(ServerPages)
    /\ totalPages = ServerPages
    /\ characters = ServerCharacters(ServerPages)
    /\ NextDisabled /\ ~PrevDisabled

\* C16 witness, low end: the table shown for page 0, 'Previous' disabled
C16_WitnessBelowOne ==
    /\ PaginationShown
    /\ PageOf(pageParam) = Number(0)
    /\ PrevDisabled

\* C17: every list query is issued with the page of the address as an
\* integer of at least 1 (1 when the parameter is absent or not a number),
\* and in the launches view with an offset that is not negative.
C17_PageAtLeastOne ==
    [][lastOp' = "fetchIssued"
         => /\ ~PageOf(pageParam).nan
            /\ PageOf(pageParam).n >= 1
            /\ \E req \in BagToSet(listInflight') :
                  /\ CopiesIn(req, listInflight') = CopiesIn(req, listInflight) + 1
                  /\ ~req.arg.nan
                  /\ req.arg.n >= (IF route = "launches" THEN 0 ELSE 1)]_vars

OwnSessionOps == {"mount", "reload", "login", "update", "logout", "submitLogin", "submitUpdate"}

\* C18 as claimed: a tab that holds its own copy of the identity goes on
\* rendering its list view whatever another tab did to the storage.
C18_NotObserved ==
    [][(/\ lastOp' # "storage"
        /\ hasWindow /\ mounted'
        /\ route' \in ListRoutes
        /\ IsUserInfo(userInfo') /\ IsAuthenticated(userInfo'))
         => screen' # "gate"]_vars

\* C18 amended: a change another tab makes to the storage changes nothing in
\* this tab when it happens, and never this tab's copy of the identity,
\* which only this tab's own operations and its reload change; the home view
\* renders by that copy alone. A List View reads the storage again at every
\* render and in its fetch effect: after a sign-out elsewhere its next
\* render is the Gate View and its effect fetches nothing (a skipped effect
\* is no render), and a tab without a copy renders the Gate View whatever
\* was stored elsewhere.
C18_ObservedAtRender ==
    /\ [][lastOp' = "storage" => UNCHANGED <<userInfo, screen, viewVars, fetchVars>>]_vars
    /\ [][userInfo' # userInfo => lastOp' \in OwnSessionOps]_vars
    /\ [][(route' = "home" /\ lastOp' # "storage")
            => screen' = (IF IsAuthenticated(userInfo') THEN "home" ELSE "gate")]_vars
    /\ [][(/\ lastOp' \notin {"storage", "fetchSkipped"}
           /\ route' \in ListRoutes
           /\ IsAuthenticated(userInfo')
           /\ ~StringTruthy(storage'))
            => screen' = "gate"]_vars
    /\ [][lastOp' \in {"fetchIssued", "fetchCached"} => StringTruthy(storage)]_vars
    /\ [][lastOp' = "fetchSkipped" => UNCHANGED <<screen, viewVars, listInflight>>]_vars
    /\ [][(lastOp' # "storage" /\ ~IsAuthenticated(userInfo')) => screen' = "gate"]_vars

\* C18 witness: the storage was cleared elsewhere while a list query of this
\* signed-in tab was in flight; the response settled and the render that
\* followed shows the gate, with no reload
C18_Witness ==
    /\ lastOp = "listData"
    /\ route \in ListRoutes
    /\ IsUserInfo(userInfo) /\ IsAuthenticated(userInfo)
    /\ storage = NoKey
    /\ screen = "gate"

\* C19: in a browser tab whose mount effects have run, with nobody else
\* writing the storage, the current identity is present exactly when the
\* storage key holds an identity, and then the two are equal field for
\* field.
C19_ContextMirrorsStore ==
    (hasWindow /\ mounted) =>
        /\ IsAuthenticated(userInfo) <=> (storage.present /\ ParseUserInfo(storage.text).ok)
        /\ IsAuthenticated(userInfo) => ParseUserInfo(storage.text).val = userInfo

\* C20: after a list query has failed in a signed-in List View the
\* pagination controls are rendered.
C20_PaginationAfterFailure ==
    [][(lastOp' = "listThrow" /\ IsAuthenticated(userInfo') /\ StringTruthy(storage'))
         => PaginationShown']_vars

QueryOps == {"fetchIssued", "fetchCached"}
EffectOps == QueryOps \cup {"fetchSkipped"}
PageOps == {"prev", "next", "address"}
\* steps that are not the view's: another tab's write, the user's reload
OutsideOps == {"storage", "reload"}
NoRefetchOps ==
    EffectOps \cup SettleOps \cup {"submitUpdate", "details", "detailCached", "close"}

\* C21: a list query is called only by the fetch effect, once for each
\* change of the page (and once after the mount that restores the
\* identity): a page change in a mounted view makes the effect run before
\* the tab takes any other event, the effect calls one query when the
\* identity is present and does not run again, and no effect run follows
\* an identity update, a by-id query issued or settled, the overlay
\* closing, or a list query settling, failed or not.
C21_OneFetchPerChange ==
    /\ [][(lastOp' \in PageOps /\ PageOf(pageParam') # PageOf(pageParam)) => EffectPending']_vars
    /\ [][(/\ lastOp = "mount"
           /\ route \in ListRoutes
           /\ IsAuthenticated(userInfo)
           /\ lastOp' \notin OutsideOps)
            => lastOp' \in EffectOps]_vars
    /\ [][(EffectPending /\ lastOp' \notin OutsideOps) => lastOp' \in EffectOps]_vars
    /\ [][(lastOp' \in EffectOps /\ IsAuthenticated(userInfo) /\ StringTruthy(storage))
            => lastOp' \in QueryOps]_vars
    /\ [][lastOp' = "fetchIssued"
            => BagCardinality(listInflight') = BagCardinality(listInflight) + 1]_vars
    /\ [][lastOp' \notin EffectOps
            => BagCardinality(listInflight') <= BagCardinality(listInflight)]_vars
    /\ [][lastOp' \in EffectOps => ~EffectPending']_vars
    /\ [][(lastOp \in NoRefetchOps) => (lastOp' \notin EffectOps)]_vars

\* C21 witness: the gate form was submitted in update mode under a view that
\* holds rows; the view renders its table again and no effect is pending
C21_Witness ==
    /\ lastOp = "submitUpdate"
    /\ ~EffectPending
    /\ listInflight = EmptyBag
    /\ Rows # <<>>
    /\ screen = "table"


\* C22: in the characters view a list fetch superseded by a page change is
\* neither cancelled nor discarded. A page change leaves the requests in
\* flight as they are, and every response that arrives with or without data,
\* for the current page or for a page the address has left, replaces the
\* rows and the total-page count by its own: the rows of page p arriving
\* after those of page q are displayed under page number q.
C22_StaleResponseApplied ==
    /\ [][lastOp' \in PageOps => listInflight' = listInflight]_vars
    /\ [][(lastOp' \in {"listData", "listNoData"} /\ route = "characters") =>
            \E req \in BagToSet(listInflight) :
               /\ listInflight' = Without(listInflight, req)
               /\ pageParam' = pageParam
               /\ characters' = (IF lastOp' = "listData"
                                 THEN ServerCharacters(req.arg.n) ELSE <<>>)
               /\ totalPages' = (IF lastOp' = "listData" THEN ServerPages ELSE 1)]_vars

\* the response for page 1 arrived after the response for page 2, on page 2
C22_Witness ==
    /\ route = "characters"
    /\ lastOp = "listData"
    /\ page = Number(2)
    /\ cache.pages = {1, 2}
    /\ listInflight = EmptyBag
    /\ characters = ServerCharacters(1)
    /\ characters # ServerCharacters(2)
    /\ screen = "table"


\* what the upstream source answers with data for the page in the address
CurrentPageRows ==
    IF ~HasPage(route, Request(route, pageParam).arg) THEN <<>>
    ELSE IF route = "characters" THEN ServerCharacters(page.n)
    ELSE ServerLaunches(OffsetOf(page).n)

\* C23: the page number in the address decides what a list view displays.
\* Whenever the view renders a table, no list fetch is in flight and no
\* fetch effect is waiting to run, the rows shown are those of the response
\* for the current page (its items, or none when it came without data),
\* after any sequence of page changes, gate submissions and out-of-band
\* storage changes. Stated for the characters view holding a well-formed
\* identity.
C23_RowsOfCurrentPage ==
    (/\ mounted
     /\ route = "characters"
     /\ IsUserInfo(userInfo)
     /\ screen = "table"
     /\ listInflight = EmptyBag
     /\ ~EffectPending)
        => Rows \in {<<>>, CurrentPageRows}


\* C24: a list view holds a detail record only while its detail overlay is
\* open: whenever the overlay is closed, including after the user closed
\* it, the slot of the detail record is empty.
C24_NoRecordWhenClosed ==
    (route \in ListRoutes /\ ~open) => selected = 0


\* C25: in the launches view a page is never merged with a previous page.
\* Once the view has gone from page 1 to page 2 and shows the table with no
\* list fetch in flight or about to start, the rows it holds are the items
\* at offset 10..19 of the upstream list (or none, when the answer came
\* without data): not page 1's items, not page 1's followed by page 2's.
C25_PageNotMerged ==
    (/\ route = "launches"
     /\ mounted
     /\ IsUserInfo(userInfo)
     /\ lastOp \in {"listData", "listNoData", "fetchCached"}
     /\ screen = "table"
     /\ listInflight = EmptyBag
     /\ page = Number(2))
        => launches \in {<<>>, ServerLaunches(OffsetOf(page).n)}


\* the view shows the loading indicator and the identity is in the context
\* and in the storage
LoadingWithIdentity ==
    /\ mounted
    /\ route \in ListRoutes
    /\ screen = "loading"
    /\ IsAuthenticated(userInfo)
    /\ IsUserAuthenticated(storage)

\* C26: a list view that shows the loading indicator with the identity in
\* the context and in the storage does not stay on it forever: with every
\* issued fetch settling, it eventually shows the table or the error (or
\* the identity leaves the context or the storage), also after the gate
\* form was submitted in update mode following an out-of-band storage clear.
C26_LoadingEnds ==
    LoadingWithIdentity ~> (screen \in {"table", "error"} \/ ~LoadingWithIdentity)

====
